---- MODULE Spec2Model ----
(***************************************************************************)
(* A model of sot_autofish/game_interaction.py: the GameInteraction class, *)
(* which tracks the keys it holds down in _keys_down and sends keyboard    *)
(* and mouse events to the game window through user32.SendInput.           *)
(*                                                                         *)
(* One action stands for one public call on the class.  The body of every  *)
(* method is an operator over a frame s, the state of a call in progress:  *)
(*   s.keys_down  the value of self._keys_down                             *)
(*   s.tr         the calls made so far to user32 and to time.sleep        *)
(*   s.err        the exception raised, NoError while none is              *)
(*   s.os         the values user32 returns to the calls still to be made  *)
(*   s.rnd        the draws random.uniform makes in the sleeps still to    *)
(*                come                                                     *)
(* A method that is entered with an exception raised does nothing: that is *)
(* how f(g(s)) reads as "g; f" with the exception of g propagating.        *)
(***************************************************************************)
EXTENDS Integers, Sequences, FiniteSets, TLC

(* --- bounds of the model ------------------------------------------------ *)

\* How many of the key identifiers of KeyPool the callers pass.
NumKeys == 4

\* random.uniform draws one of SleepSteps + 1 evenly spaced durations.
SleepSteps == 1

\* The key identifiers the callers may pass, in the order the bound takes
\* them: a held modifier, a letter in both cases, an unmapped character.
KeyPool == <<"q", "a", "A", "@", "f", "5", "Q", " ">>

Keys == {KeyPool[i] : i \in 1..(IF NumKeys < Len(KeyPool) THEN NumKeys ELSE Len(KeyPool))}

Titles == {"Sea of Thieves"}

(* --- constants of the program ------------------------------------------- *)

\* "\\b" stands for the backspace character, which has no TLA+ escape.
US_QWERTY_SCANCODES ==
    "a" :> 30 @@ "b" :> 48 @@ "c" :> 46 @@ "d" :> 32 @@ "e" :> 18 @@ "f" :> 33 @@
    "g" :> 34 @@ "h" :> 35 @@ "i" :> 23 @@ "j" :> 36 @@ "k" :> 37 @@ "l" :> 38 @@
    "m" :> 50 @@ "n" :> 49 @@ "o" :> 24 @@ "p" :> 25 @@ "q" :> 16 @@ "r" :> 19 @@
    "s" :> 31 @@ "t" :> 20 @@ "u" :> 22 @@ "v" :> 47 @@ "w" :> 17 @@ "x" :> 45 @@
    "y" :> 21 @@ "z" :> 44 @@
    "0" :> 11 @@ "1" :> 2 @@ "2" :> 3 @@ "3" :> 4 @@ "4" :> 5 @@ "5" :> 6 @@
    "6" :> 7 @@ "7" :> 8 @@ "8" :> 9 @@ "9" :> 10 @@
    " " :> 57 @@ "\n" :> 28 @@ "\\b" :> 14 @@ "\t" :> 15

_MOUSEEVENTF_LEFTDOWN == 2
_MOUSEEVENTF_LEFTUP == 4
_MOUSEEVENTF_RIGHTDOWN == 8
_MOUSEEVENTF_RIGHTUP == 16
_KEYEVENTF_SCANCODE == 8
_KEYEVENTF_KEYUP == 2

\* The INPUT.type values the two _create_*_input methods write.
INPUT_MOUSE == 0
INPUT_KEYBOARD == 1

\* The default range of _random_sleep_after_key and the dwell of press_key.
AFTER_KEY_MIN_MS == 200
AFTER_KEY_MAX_MS == 300
PRESS_DWELL_MIN_MS == 50
PRESS_DWELL_MAX_MS == 100

(* --- pure helpers ------------------------------------------------------- *)

\* str.lower() on the one-character identifiers of the model: the ASCII
\* capitals map to their small letters, every other character to itself.
ASCII_UPPER ==
    "A" :> "a" @@ "B" :> "b" @@ "C" :> "c" @@ "D" :> "d" @@ "E" :> "e" @@ "F" :> "f" @@
    "G" :> "g" @@ "H" :> "h" @@ "I" :> "i" @@ "J" :> "j" @@ "K" :> "k" @@ "L" :> "l" @@
    "M" :> "m" @@ "N" :> "n" @@ "O" :> "o" @@ "P" :> "p" @@ "Q" :> "q" @@ "R" :> "r" @@
    "S" :> "s" @@ "T" :> "t" @@ "U" :> "u" @@ "V" :> "v" @@ "W" :> "w" @@ "X" :> "x" @@
    "Y" :> "y" @@ "Z" :> "z"

lower(key) == IF key \in DOMAIN ASCII_UPPER THEN ASCII_UPPER[key] ELSE key

\* a | b on naturals.
RECURSIVE BitOr(_, _)
BitOr(a, b) ==
    IF a = 0 THEN b
    ELSE IF b = 0 THEN a
    ELSE (IF a % 2 = 1 \/ b % 2 = 1 THEN 1 ELSE 0) + 2 * BitOr(a \div 2, b \div 2)

\* a & b on naturals.
RECURSIVE BitAnd(_, _)
BitAnd(a, b) ==
    IF a = 0 \/ b = 0 THEN 0
    ELSE (IF a % 2 = 1 /\ b % 2 = 1 THEN 1 ELSE 0) + 2 * BitAnd(a \div 2, b \div 2)

(* --- exceptions --------------------------------------------------------- *)

NoError == [type |-> "", msg |-> "", arg |-> ""]

\* raise GameWindowError(f"Game window with title '{game_title}' not found.")
WindowNotFoundError(game_title) ==
    [type |-> "GameWindowError",
     msg |-> "Game window with title '{game_title}' not found.",
     arg |-> game_title]

\* raise GameWindowError("Failed to bring the game window to the foreground.")
ForegroundError ==
    [type |-> "GameWindowError",
     msg |-> "Failed to bring the game window to the foreground.",
     arg |-> ""]

\* Mutant: the failed SendInput is reported with the module's own exception.
SendInputError_as_GameWindowError ==
    [type |-> "GameWindowError",
     msg |-> "Failed to send input to the game window.",
     arg |-> ""]

\* raise OSError("Failed to send input to the game window.")
SendInputError ==
    [type |-> "OSError",
     msg |-> "Failed to send input to the game window.",
     arg |-> ""]

\* raise ValueError(f"Key '{key}' is not supported in the US-QWERTY scancode
\* map."), with key already lowered.
UnsupportedKeyError(key) ==
    [type |-> "ValueError",
     msg |-> "Key '{key}' is not supported in the US-QWERTY scancode map.",
     arg |-> key]

Raised(s) == s.err # NoError

Raise(s, e) == [s EXCEPT !.err = e]

(* --- the frame of a call ------------------------------------------------ *)

\* The frame a call starts in.
Enter(kd, os, rnd) == [keys_down |-> kd, tr |-> <<>>, err |-> NoError, os |-> os, rnd |-> rnd]

\* The values user32 may return to n calls: 0 is failure (no window, focus
\* refused, no event inserted), 1 is a handle, TRUE or one event inserted.
OsReturns(n) == [1..n -> {0, 1}]

\* The draws of n sleeps.
Draws(n) == [1..n -> 0..SleepSteps]

\* A call to user32: it is entered in the trace with the value it returned.
Syscall(s, step) ==
    [s EXCEPT !.tr = Append(@, step @@ [result |-> Head(s.os)]), !.os = Tail(@)]

LastResult(s) == s.tr[Len(s.tr)].result

(* --- GameInteraction ---------------------------------------------------- *)

_create_keyboard_input(scancode, flags) ==
    [type |-> INPUT_KEYBOARD,
     ki |-> [wVk |-> 0, wScan |-> scancode, dwFlags |-> flags, time |-> 0]]

\* Mutant: the mouse flags are written into a keyboard input.
_create_mouse_input_as_keyboard(flags) ==
    [type |-> INPUT_KEYBOARD,
     ki |-> [wVk |-> 0, wScan |-> 0, dwFlags |-> flags, time |-> 0]]

_create_mouse_input(flags) ==
    [type |-> INPUT_MOUSE,
     mi |-> [dx |-> 0, dy |-> 0, mouseData |-> 0, dwFlags |-> flags, time |-> 0]]

\* Mutant: US_QWERTY_SCANCODES.get(key, 0) in place of the test and the raise.
_char_to_scancode_default(key) ==
    IF lower(key) \in DOMAIN US_QWERTY_SCANCODES
    THEN [err |-> NoError, scancode |-> US_QWERTY_SCANCODES[lower(key)]]
    ELSE [err |-> NoError, scancode |-> 0]

\* The scancode of key, or the ValueError raised for it.
_char_to_scancode(key) ==
    IF lower(key) \in DOMAIN US_QWERTY_SCANCODES
    THEN [err |-> NoError, scancode |-> US_QWERTY_SCANCODES[lower(key)]]
    ELSE [err |-> UnsupportedKeyError(lower(key)), scancode |-> 0]

\* Mutant: the value SendInput returns is not looked at.
_send_input_unchecked(s, input_struct, key) ==
    IF Raised(s) THEN s
    ELSE Syscall(s, [fn |-> "SendInput", input |-> input_struct, key |-> key])

\* key is not an argument of the method: it names, in the trace, the key
\* identifier the event is sent for ("" for a mouse event).
_send_input(s, input_struct, key) ==
    IF Raised(s) THEN s
    ELSE LET t == Syscall(s, [fn |-> "SendInput", input |-> input_struct, key |-> key])
         IN  IF LastResult(t) = 0 THEN Raise(t, SendInputError) ELSE t

\* random.uniform(min_ms / 1000, max_ms / 1000), in milliseconds.
uniform(min_ms, max_ms, draw) == min_ms + (draw * (max_ms - min_ms)) \div SleepSteps

_random_sleep(s, min_ms, max_ms) ==
    IF Raised(s) THEN s
    ELSE [s EXCEPT !.tr = Append(@, [fn |-> "sleep", min_ms |-> min_ms, max_ms |-> max_ms,
                                     ms |-> uniform(min_ms, max_ms, Head(s.rnd))]),
                   !.rnd = Tail(@)]

_random_sleep_after_key(s, min_ms, max_ms) == _random_sleep(s, min_ms, max_ms)

\* Mutant: hwnd is passed on to SetForegroundWindow without the test for 0.
_set_to_foreground_no_hwnd_test(s, game_title) ==
    LET f == Syscall(s, [fn |-> "FindWindowW", title |-> game_title])
        g == Syscall(f, [fn |-> "SetForegroundWindow", hwnd |-> LastResult(f)])
    IN  IF LastResult(g) = 0 THEN Raise(g, ForegroundError) ELSE g

\* Mutant: the value SetForegroundWindow returns is not looked at.
_set_to_foreground_no_result_test(s, game_title) ==
    LET f == Syscall(s, [fn |-> "FindWindowW", title |-> game_title])
    IN  IF LastResult(f) = 0 THEN Raise(f, WindowNotFoundError(game_title))
        ELSE Syscall(f, [fn |-> "SetForegroundWindow", hwnd |-> LastResult(f)])

_set_to_foreground(s, game_title) ==
    LET f == Syscall(s, [fn |-> "FindWindowW", title |-> game_title])
    IN  IF LastResult(f) = 0 THEN Raise(f, WindowNotFoundError(game_title))
        ELSE LET g == Syscall(f, [fn |-> "SetForegroundWindow", hwnd |-> LastResult(f)])
             IN  IF LastResult(g) = 0 THEN Raise(g, ForegroundError) ELSE g

__init__(s, game_title) ==
    LET t == _set_to_foreground(s, game_title)
    IN  IF Raised(t) THEN t ELSE [t EXCEPT !.keys_down = {}]

\* Mutant: the key is marked as pressed before the event is sent.
_hold_key_marks_first(s, key) ==
    IF Raised(s) THEN s
    ELSE IF key \in s.keys_down THEN s
    ELSE LET c == _char_to_scancode(key)
         IN  IF c.err # NoError THEN Raise(s, c.err)
             ELSE _send_input([s EXCEPT !.keys_down = @ \cup {key}],
                              _create_keyboard_input(c.scancode, _KEYEVENTF_SCANCODE), key)

\* Mutant: no test for a key that is already pressed.
_hold_key_unguarded(s, key) ==
    IF Raised(s) THEN s
    ELSE LET c == _char_to_scancode(key)
         IN  IF c.err # NoError THEN Raise(s, c.err)
             ELSE LET t == _send_input(s, _create_keyboard_input(c.scancode, _KEYEVENTF_SCANCODE), key)
                  IN  IF Raised(t) THEN t ELSE [t EXCEPT !.keys_down = @ \cup {key}]

_hold_key(s, key) ==
    IF Raised(s) THEN s
    ELSE IF key \in s.keys_down THEN s
    ELSE LET c == _char_to_scancode(key)
         IN  IF c.err # NoError THEN Raise(s, c.err)
             ELSE LET t == _send_input(s, _create_keyboard_input(c.scancode, _KEYEVENTF_SCANCODE), key)
                  IN  IF Raised(t) THEN t ELSE [t EXCEPT !.keys_down = @ \cup {key}]

hold_key(s, key) ==
    _random_sleep_after_key(_hold_key(s, key), AFTER_KEY_MIN_MS, AFTER_KEY_MAX_MS)

\* Mutant: no test for a key that is not pressed; set.remove raises KeyError
\* for a key that is not in the set.
_release_key_unguarded(s, key) ==
    IF Raised(s) THEN s
    ELSE LET c == _char_to_scancode(key)
         IN  IF c.err # NoError THEN Raise(s, c.err)
             ELSE LET t == _send_input(s, _create_keyboard_input(c.scancode,
                                           BitOr(_KEYEVENTF_SCANCODE, _KEYEVENTF_KEYUP)), key)
                  IN  IF Raised(t) THEN t
                      ELSE IF key \notin t.keys_down
                      THEN Raise(t, [type |-> "KeyError", msg |-> "{key}", arg |-> key])
                      ELSE [t EXCEPT !.keys_down = @ \ {key}]

\* Mutant: self._keys_down.clear() in place of remove(key).
_release_key_clears_all(s, key) ==
    IF Raised(s) THEN s
    ELSE IF key \notin s.keys_down THEN s
    ELSE LET c == _char_to_scancode(key)
         IN  IF c.err # NoError THEN Raise(s, c.err)
             ELSE LET t == _send_input(s, _create_keyboard_input(c.scancode,
                                           BitOr(_KEYEVENTF_SCANCODE, _KEYEVENTF_KEYUP)), key)
                  IN  IF Raised(t) THEN t ELSE [t EXCEPT !.keys_down = {}]

_release_key(s, key) ==
    IF Raised(s) THEN s
    ELSE IF key \notin s.keys_down THEN s
    ELSE LET c == _char_to_scancode(key)
         IN  IF c.err # NoError THEN Raise(s, c.err)
             ELSE LET t == _send_input(s, _create_keyboard_input(c.scancode,
                                           BitOr(_KEYEVENTF_SCANCODE, _KEYEVENTF_KEYUP)), key)
                  IN  IF Raised(t) THEN t ELSE [t EXCEPT !.keys_down = @ \ {key}]

release_key(s, key) ==
    _random_sleep_after_key(_release_key(s, key), AFTER_KEY_MIN_MS, AFTER_KEY_MAX_MS)

\* Mutant: the key is held and never released.
press_key_no_release(s, key) ==
    _random_sleep_after_key(
        _random_sleep_after_key(_hold_key(s, key), PRESS_DWELL_MIN_MS, PRESS_DWELL_MAX_MS),
        AFTER_KEY_MIN_MS, AFTER_KEY_MAX_MS)

press_key(s, key) ==
    _random_sleep_after_key(
        _release_key(
            _random_sleep_after_key(_hold_key(s, key), PRESS_DWELL_MIN_MS, PRESS_DWELL_MAX_MS),
            key),
        AFTER_KEY_MIN_MS, AFTER_KEY_MAX_MS)

\* for key in order: self._release_key(key)
RECURSIVE ReleaseEach(_, _)
ReleaseEach(s, order) ==
    IF order = <<>> THEN s ELSE ReleaseEach(_release_key(s, Head(order)), Tail(order))

\* Mutant: the loop runs over self._keys_down itself; the iterator raises
\* RuntimeError when it is asked for the key after the first removal.
reset_keys_no_copy(s, order) ==
    IF order = <<>> THEN s
    ELSE LET t == _release_key(s, Head(order))
         IN  IF Raised(t) THEN t
             ELSE Raise(t, [type |-> "RuntimeError",
                            msg |-> "Set changed size during iteration", arg |-> ""])

\* order is list(self._keys_down): the copy, in the order the set iterates.
reset_keys(s, order) == ReleaseEach(s, order)

left_click_down(s) == _send_input(s, _create_mouse_input(_MOUSEEVENTF_LEFTDOWN), "")

left_click_up(s) == _send_input(s, _create_mouse_input(_MOUSEEVENTF_LEFTUP), "")

\* Mutant: the two calls of left_click in the other order.
left_click_up_first(s) == left_click_down(left_click_up(s))

left_click(s) == left_click_up(left_click_down(s))

right_click_down(s) == _send_input(s, _create_mouse_input(_MOUSEEVENTF_RIGHTDOWN), "")

right_click_up(s) == _send_input(s, _create_mouse_input(_MOUSEEVENTF_RIGHTUP), "")

right_click(s) == right_click_up(right_click_down(s))

(* --- what the trace of a call says -------------------------------------- *)

IsSend(e) == e.fn = "SendInput"

IsKey(e) == IsSend(e) /\ e.input.type = INPUT_KEYBOARD

IsMouse(e) == IsSend(e) /\ e.input.type = INPUT_MOUSE

IsKeyUp(e) == IsKey(e) /\ BitAnd(e.input.ki.dwFlags, _KEYEVENTF_KEYUP) # 0

IsKeyDown(e) == IsKey(e) /\ BitAnd(e.input.ki.dwFlags, _KEYEVENTF_KEYUP) = 0

IsSleep(e) == e.fn = "sleep"

\* SendInput returns the number of events it inserted in the input stream.
Delivered(e) == IsSend(e) /\ e.result # 0

Sends(tr) == SelectSeq(tr, IsSend)

\* The key identifiers with a delivered key-down and no delivered key-up
\* after it, when down held them before the events of tr.
RECURSIVE DownAfter(_, _)
DownAfter(down, tr) ==
    IF tr = <<>> THEN down
    ELSE LET e == Head(tr)
         IN  DownAfter(IF Delivered(e) /\ IsKeyDown(e) THEN down \cup {e.key}
                       ELSE IF Delivered(e) /\ IsKeyUp(e) THEN down \ {e.key}
                       ELSE down,
                       Tail(tr))

\* The scancodes whose last delivered keyboard event is a key-down, when
\* down held them before the events of tr: what the input stream of the OS
\* takes to be pressed.
RECURSIVE ScanDownAfter(_, _)
ScanDownAfter(down, tr) ==
    IF tr = <<>> THEN down
    ELSE LET e == Head(tr)
         IN  ScanDownAfter(IF Delivered(e) /\ IsKeyDown(e) THEN down \cup {e.input.ki.wScan}
                           ELSE IF Delivered(e) /\ IsKeyUp(e) THEN down \ {e.input.ki.wScan}
                           ELSE down,
                           Tail(tr))

\* The sequences that hold every element of S once.
RECURSIVE Orders(_)
Orders(S) ==
    IF S = {} THEN {<<>>}
    ELSE UNION {{<<x>> \o o : o \in Orders(S \ {x})} : x \in S}

(* --- state -------------------------------------------------------------- *)

VARIABLES
    constructed,  \* a GameInteraction instance exists: __init__ returned
    keys_down,    \* self._keys_down
    call,         \* the last call: method, argument, _keys_down before, trace, exception
    os_down,      \* the key identifiers the delivered events leave down
    scan_down,    \* the scancodes the delivered events leave down
    window,       \* what FindWindowW and SetForegroundWindow returned to __init__
    caught        \* the last exception the caller caught before this call, with its cause

vars == <<constructed, keys_down, call, os_down, scan_down, window, caught>>

NoFailure == [cause |-> "none", type |-> "", msg |-> ""]

NoCall == [op |-> "", key |-> "", pre |-> {}, tr |-> <<>>, err |-> NoError]

Init ==
    /\ constructed = FALSE
    /\ keys_down = {}
    /\ call = NoCall
    /\ os_down = {}
    /\ scan_down = {}
    /\ window = [hwnd |-> 0, foreground |-> 0]
    /\ caught = NoFailure

\* Why a call failed, read from its trace: the last user32 call returned 0,
\* or no user32 call was the last thing before the exception.
Cause(c) ==
    IF c.err = NoError THEN "none"
    ELSE IF c.tr # <<>> /\ c.tr[Len(c.tr)].fn = "FindWindowW" THEN "no_window"
    ELSE IF c.tr # <<>> /\ c.tr[Len(c.tr)].fn = "SetForegroundWindow" THEN "no_foreground"
    ELSE IF c.tr # <<>> /\ c.tr[Len(c.tr)].fn = "SendInput" /\ c.tr[Len(c.tr)].result = 0
         THEN "send_rejected"
    ELSE "no_scancode"

\* What the caller of c catches: the exception's class and text.
Failure(c) == [cause |-> Cause(c), type |-> c.err.type, msg |-> c.err.msg]

\* The call op(key) ran from the current state and ended in frame s.
Return(op, key, s) ==
    LET c == [op |-> op, key |-> key, pre |-> keys_down, tr |-> s.tr, err |-> s.err]
    IN  /\ call' = c
        /\ keys_down' = s.keys_down
        /\ os_down' = DownAfter(os_down, s.tr)
        /\ scan_down' = ScanDownAfter(scan_down, s.tr)
        /\ caught' = IF Raised(call) THEN Failure(call) ELSE caught

\* GameInteraction(game_title)
Construct ==
    /\ ~constructed
    /\ \E game_title \in Titles, os \in OsReturns(2) :
         LET s == __init__(Enter(keys_down, os, <<>>), game_title)
         IN  /\ Return("__init__", game_title, s)
             /\ constructed' = ~Raised(s)
             /\ window' = [hwnd |-> s.tr[1].result,
                           foreground |-> IF Len(s.tr) > 1 THEN s.tr[2].result ELSE 0]

HoldKey ==
    /\ constructed
    /\ \E key \in Keys, os \in OsReturns(1), rnd \in Draws(1) :
         Return("hold_key", key, hold_key(Enter(keys_down, os, rnd), key))
    /\ UNCHANGED <<constructed, window>>

ReleaseKey ==
    /\ constructed
    /\ \E key \in Keys, os \in OsReturns(1), rnd \in Draws(1) :
         Return("release_key", key, release_key(Enter(keys_down, os, rnd), key))
    /\ UNCHANGED <<constructed, window>>

PressKey ==
    /\ constructed
    /\ \E key \in Keys, os \in OsReturns(2), rnd \in Draws(2) :
         Return("press_key", key, press_key(Enter(keys_down, os, rnd), key))
    /\ UNCHANGED <<constructed, window>>

ResetKeys ==
    /\ constructed
    /\ \E order \in Orders(keys_down), os \in OsReturns(Cardinality(keys_down)) :
         Return("reset_keys", "", reset_keys(Enter(keys_down, os, <<>>), order))
    /\ UNCHANGED <<constructed, window>>

LeftClick ==
    /\ constructed
    /\ \E os \in OsReturns(2) : Return("left_click", "", left_click(Enter(keys_down, os, <<>>)))
    /\ UNCHANGED <<constructed, window>>

LeftClickDown ==
    /\ constructed
    /\ \E os \in OsReturns(1) :
         Return("left_click_down", "", left_click_down(Enter(keys_down, os, <<>>)))
    /\ UNCHANGED <<constructed, window>>

LeftClickUp ==
    /\ constructed
    /\ \E os \in OsReturns(1) :
         Return("left_click_up", "", left_click_up(Enter(keys_down, os, <<>>)))
    /\ UNCHANGED <<constructed, window>>

RightClick ==
    /\ constructed
    /\ \E os \in OsReturns(2) : Return("right_click", "", right_click(Enter(keys_down, os, <<>>)))
    /\ UNCHANGED <<constructed, window>>

RightClickDown ==
    /\ constructed
    /\ \E os \in OsReturns(1) :
         Return("right_click_down", "", right_click_down(Enter(keys_down, os, <<>>)))
    /\ UNCHANGED <<constructed, window>>

RightClickUp ==
    /\ constructed
    /\ \E os \in OsReturns(1) :
         Return("right_click_up", "", right_click_up(Enter(keys_down, os, <<>>)))
    /\ UNCHANGED <<constructed, window>>

Next ==
    \/ Construct
    \/ HoldKey
    \/ ReleaseKey
    \/ PressKey
    \/ ResetKeys
    \/ LeftClick
    \/ LeftClickDown
    \/ LeftClickUp
    \/ RightClick
    \/ RightClickDown
    \/ RightClickUp

Spec == Init /\ [][Next]_vars

(* --- properties --------------------------------------------------------- *)

KeyOps == {"hold_key", "release_key", "press_key"}

\* Every SendInput of the trace inserted its event.
AllDelivered(tr) == \A i \in 1..Len(tr) : IsSend(tr[i]) => tr[i].result # 0

\* A SendInput of the trace was rejected.
SomeRejected(tr) == \E i \in 1..Len(tr) : IsSend(tr[i]) /\ tr[i].result = 0

\* e is the key-down event of key identifier k.
IsDownOf(e, k) ==
    /\ IsKeyDown(e)
    /\ e.key = k
    /\ e.input.ki.wScan = US_QWERTY_SCANCODES[lower(k)]

\* e is the key-up event of key identifier k.
IsUpOf(e, k) ==
    /\ IsKeyUp(e)
    /\ e.key = k
    /\ e.input.ki.wScan = US_QWERTY_SCANCODES[lower(k)]

Mapped(k) == lower(k) \in DOMAIN US_QWERTY_SCANCODES

\* C1: in every reachable state, also after calls that ended in an
\* exception, a key identifier is in _keys_down iff a key-down event was
\* delivered for it and no key-up event was delivered for it since.
C1_HeldIffDownUnmatched == keys_down = os_down

\* C1: keys are held, and the last call failed in SendInput.
C1_Witness ==
    /\ keys_down # {}
    /\ os_down # {}
    /\ Cause(call) = "send_rejected"
    /\ call.op \in KeyOps

\* C2, first half: hold_key(k) with k already held sends nothing, raises
\* nothing and leaves _keys_down as it was.
C2_HoldWhileHeld ==
    (call.op = "hold_key" /\ call.key \in call.pre) =>
        /\ Sends(call.tr) = <<>>
        /\ call.err = NoError
        /\ keys_down = call.pre

\* C2, second half: two hold_key(k) calls in a row that both return, the
\* first with k not held, send exactly one event between them, the key-down
\* of k, and end with k held.
C2_HoldTwice ==
    (/\ call.op = "hold_key" /\ call.key \notin call.pre /\ call.err = NoError
     /\ call'.op = "hold_key" /\ call'.key = call.key /\ call'.err = NoError
     /\ call' # call) =>
        /\ Len(Sends(call.tr)) = 1
        /\ IsDownOf(Sends(call.tr)[1], call.key)
        /\ Sends(call'.tr) = <<>>
        /\ call.key \in keys_down'
        /\ keys_down' = keys_down

\* C2: hold_key(k) with k held is a no-op, so hold_key(k); hold_key(k) from
\* k not held sends exactly one key-down event and ends with k held.
C2_HoldIdempotent == [](C2_HoldWhileHeld) /\ [][C2_HoldTwice]_vars

\* C2: hold_key(k) returned after it was called with k held.
C2_Witness ==
    /\ call.op = "hold_key"
    /\ call.key \in call.pre
    /\ call.key \in keys_down
    /\ \E i \in 1..Len(call.tr) : IsSleep(call.tr[i])

\* C3: release_key(k) with k not held, mapped or not, sends nothing, raises
\* nothing and leaves _keys_down as it was.
C3_ReleaseNotHeld ==
    (call.op = "release_key" /\ call.key \notin call.pre) =>
        /\ Sends(call.tr) = <<>>
        /\ call.err = NoError
        /\ keys_down = call.pre

\* C3: release_key returned for a key that is not held and has no scancode.
C3_Witness ==
    /\ call.op = "release_key"
    /\ call.key \notin call.pre
    /\ ~Mapped(call.key)
    /\ call.pre # {}

\* The events of tr are the key-down of k, then the key-up of k.
DownThenUp(tr, k) ==
    /\ Len(Sends(tr)) = 2
    /\ IsDownOf(Sends(tr)[1], k)
    /\ IsUpOf(Sends(tr)[2], k)

\* C4 as claimed: from any reachable state, press_key(k) of a mapped key
\* whose SendInput calls all succeed sends the key-down of k, then the
\* key-up of k, and nothing else.
C4_PressDownThenUp_Original ==
    (call.op = "press_key" /\ Mapped(call.key) /\ AllDelivered(call.tr)) =>
        DownThenUp(call.tr, call.key)

\* C4 as amended: with all SendInput calls succeeding, press_key(k) of a
\* mapped key that is not held sends the key-down of k, then the key-up of
\* k, and nothing else; press_key(k) of a key that is held sends only the
\* key-up of k.  Either way k is not held afterwards.
C4_PressDownThenUp ==
    (call.op = "press_key" /\ Mapped(call.key) /\ AllDelivered(call.tr)) =>
        /\ call.key \notin call.pre => DownThenUp(call.tr, call.key)
        /\ call.key \in call.pre =>
              /\ Len(Sends(call.tr)) = 1
              /\ IsUpOf(Sends(call.tr)[1], call.key)
        /\ call.err = NoError
        /\ keys_down = call.pre \ {call.key}

\* C4: press_key returned for a key that was not held, with other keys held.
C4_Witness ==
    /\ call.op = "press_key"
    /\ call.key \notin call.pre
    /\ call.pre # {}
    /\ DownThenUp(call.tr, call.key)
    /\ AllDelivered(call.tr)

\* C5: reset_keys with every SendInput succeeding sends exactly one key-up
\* event for each key that was held, none for any other key and nothing
\* else, and leaves _keys_down empty; with no key held it sends nothing.
C5_ResetReleasesEachOnce ==
    (call.op = "reset_keys" /\ AllDelivered(call.tr)) =>
        /\ Len(call.tr) = Cardinality(call.pre)
        /\ \A i \in 1..Len(call.tr) : IsUpOf(call.tr[i], call.tr[i].key)
        /\ {call.tr[i].key : i \in 1..Len(call.tr)} = call.pre
        /\ call.err = NoError
        /\ keys_down = {}

\* C5: reset_keys returned after releasing at least two keys.
C5_Witness ==
    /\ call.op = "reset_keys"
    /\ Cardinality(call.pre) >= 2
    /\ AllDelivered(call.tr)
    /\ Len(call.tr) >= 2
    /\ keys_down = {}

\* C6 as claimed: for a key outside a-z, 0-9, space, newline, backspace and
\* tab (after the case folding of the lookup, which is the reading kindest
\* to the claim), each of hold_key, release_key and press_key raises the
\* unsupported key error, sends nothing and leaves _keys_down as it was.
C6_UnsupportedKey_Original ==
    (call.op \in KeyOps /\ ~Mapped(call.key)) =>
        /\ call.err.type = "ValueError"
        /\ Sends(call.tr) = <<>>
        /\ keys_down = call.pre

\* C6 as amended: for a key whose lower-case form is outside a-z, 0-9,
\* space, newline, backspace and tab, hold_key and press_key raise the
\* unsupported key error (ValueError, naming the lowered key), and
\* release_key returns without an error, such a key never being held; each
\* of the three sends nothing and leaves _keys_down as it was.
C6_UnsupportedKey ==
    (call.op \in KeyOps /\ ~Mapped(call.key)) =>
        /\ call.op \in {"hold_key", "press_key"} =>
              call.err = UnsupportedKeyError(lower(call.key))
        /\ call.op = "release_key" => call.err = NoError
        /\ Sends(call.tr) = <<>>
        /\ keys_down = call.pre
        /\ call.key \notin keys_down

\* C6: press_key raised for a key without a scancode while keys were held.
C6_Witness ==
    /\ call.op = "press_key"
    /\ ~Mapped(call.key)
    /\ call.err.type = "ValueError"
    /\ call.pre # {}

\* C7: when SendInput reports failure during hold_key(k) or release_key(k),
\* the call raises the send error after that one SendInput, with nothing
\* after it, and _keys_down is as it was before the call.
C7_DispatchFailure ==
    (call.op \in {"hold_key", "release_key"} /\ SomeRejected(call.tr)) =>
        /\ call.err = SendInputError
        /\ Len(call.tr) = 1
        /\ IsSend(call.tr[1])
        /\ keys_down = call.pre

\* C7: release_key of a held key failed in SendInput, and the key is held.
C7_Witness ==
    /\ call.op = "release_key"
    /\ SomeRejected(call.tr)
    /\ call.key \in call.pre
    /\ call.key \in keys_down

Finds(tr) == SelectSeq(tr, LAMBDA e : e.fn = "FindWindowW")

Activations(tr) == SelectSeq(tr, LAMBDA e : e.fn = "SetForegroundWindow")

\* C8: construction looks the window up once and tries to activate it at
\* most once.  No window: it fails with the window-not-found error and does
\* not try to activate.  Window found, activation refused: it fails with the
\* foreground error.  Only when both succeed is there an instance, and its
\* _keys_down is empty.
C8_Construction ==
    call.op = "__init__" =>
        /\ Len(Finds(call.tr)) = 1
        /\ Len(Activations(call.tr)) <= 1
        /\ Len(call.tr) = Len(Finds(call.tr)) + Len(Activations(call.tr))
        /\ Finds(call.tr)[1].result = 0 =>
              /\ call.err = WindowNotFoundError(call.key)
              /\ Activations(call.tr) = <<>>
              /\ ~constructed
        /\ Finds(call.tr)[1].result # 0 =>
              /\ Len(Activations(call.tr)) = 1
              /\ call.tr[2].hwnd = call.tr[1].result
              /\ Activations(call.tr)[1].result = 0 =>
                    call.err = ForegroundError /\ ~constructed
              /\ Activations(call.tr)[1].result # 0 =>
                    call.err = NoError /\ constructed /\ keys_down = {}

\* C8: construction succeeded after an earlier attempt had failed.
C8_Witness ==
    /\ call.op = "__init__"
    /\ constructed
    /\ caught.cause = "no_foreground"
    /\ keys_down = {}

\* C9: whenever the last call sent an input event, the construction of the
\* instance had found the window and brought it to the foreground; and
\* while no instance is constructed the last call is a construction (or
\* there was none), and it sent no input event.
C9_NoInputWithoutWindow ==
    /\ Sends(call.tr) # <<>> =>
          /\ constructed
          /\ window.hwnd # 0
          /\ window.foreground # 0
    /\ ~constructed =>
          /\ call.op \in {"", "__init__"}
          /\ Sends(call.tr) = <<>>
          /\ keys_down = {}
          /\ os_down = {}

\* C9: an input event was delivered by an instance that was constructed
\* after a construction had failed for want of a window.
C9_Witness ==
    /\ constructed
    /\ Sends(call.tr) # <<>>
    /\ AllDelivered(call.tr)
    /\ caught.cause = "no_window"

ConstructionCauses == {"no_window", "no_foreground"}

IsMouseEvent(e, flags) == IsMouse(e) /\ e.input.mi.dwFlags = flags

\* tr is the mouse event with flags down, then the one with flags up, and
\* nothing else: no sleep, no other event.
ClickPair(tr, down, up) ==
    /\ Len(tr) = 2
    /\ IsMouseEvent(tr[1], down)
    /\ IsMouseEvent(tr[2], up)

\* The two click methods with the events of each.
Clicks ==
    {[op |-> "left_click", down |-> _MOUSEEVENTF_LEFTDOWN, up |-> _MOUSEEVENTF_LEFTUP],
     [op |-> "right_click", down |-> _MOUSEEVENTF_RIGHTDOWN, up |-> _MOUSEEVENTF_RIGHTUP]}

\* C11 as claimed: left_click sends exactly two mouse events, left-down then
\* left-up, with no sleep and no other event between them; right_click does
\* the same with right-down and right-up.
C11_ClickDownThenUp_Original ==
    \A c \in Clicks : call.op = c.op => ClickPair(call.tr, c.down, c.up)

\* C11 as amended: a left_click (right_click) whose SendInput calls both
\* succeed sends exactly two mouse events, button-down then button-up, with
\* no sleep and no other event between them.  When SendInput rejects one of
\* the two, the call raises the send error right there: a rejected
\* button-down is the only event of the call, no button-up follows it.
C11_ClickDownThenUp ==
    \A c \in Clicks : call.op = c.op =>
        /\ AllDelivered(call.tr) =>
              ClickPair(call.tr, c.down, c.up) /\ call.err = NoError
        /\ ~AllDelivered(call.tr) =>
              /\ call.err = SendInputError
              /\ Len(call.tr) \in {1, 2}
              /\ IsMouseEvent(call.tr[1], c.down)
              /\ Len(call.tr) = 2 => IsMouseEvent(call.tr[2], c.up)
              /\ \A i \in 1..Len(call.tr) : call.tr[i].result = 0 <=> i = Len(call.tr)

\* C11: right_click returned after both of its events were delivered, with
\* keys held.
C11_Witness ==
    /\ call.op = "right_click"
    /\ ClickPair(call.tr, _MOUSEEVENTF_RIGHTDOWN, _MOUSEEVENTF_RIGHTUP)
    /\ AllDelivered(call.tr)
    /\ call.pre # {}

\* The four button methods with the event of each.
ButtonOps ==
    {[op |-> "left_click_down", flags |-> _MOUSEEVENTF_LEFTDOWN],
     [op |-> "left_click_up", flags |-> _MOUSEEVENTF_LEFTUP],
     [op |-> "right_click_down", flags |-> _MOUSEEVENTF_RIGHTDOWN],
     [op |-> "right_click_up", flags |-> _MOUSEEVENTF_RIGHTUP]}

MouseOps == {b.op : b \in ButtonOps} \cup {c.op : c \in Clicks}

\* C12: each of left_click_down, left_click_up, right_click_down and
\* right_click_up makes exactly one SendInput call, of its own mouse event;
\* left_click and right_click make one per button transition, down before
\* up; none of the six sends a keyboard event or sleeps, and each leaves
\* _keys_down as it was, whether SendInput succeeds or fails.
C12_MouseOpsFrame ==
    /\ \A b \in ButtonOps : call.op = b.op =>
          Len(call.tr) = 1 /\ IsMouseEvent(call.tr[1], b.flags)
    /\ \A c \in Clicks : call.op = c.op =>
          /\ Len(call.tr) \in {1, 2}
          /\ IsMouseEvent(call.tr[1], c.down)
          /\ Len(call.tr) = 2 => IsMouseEvent(call.tr[2], c.up)
    /\ call.op \in MouseOps =>
          /\ \A i \in 1..Len(call.tr) : IsMouse(call.tr[i]) /\ ~IsKey(call.tr[i])
          /\ keys_down = call.pre
          /\ os_down = call.pre

\* C12: left_click_up failed in SendInput while keys were held.
C12_Witness ==
    /\ call.op = "left_click_up"
    /\ SomeRejected(call.tr)
    /\ call.pre # {}
    /\ keys_down = call.pre

KeyboardOps == KeyOps \cup {"reset_keys"}

\* Step i of tr is followed at once by a sleep of a duration drawn from the
\* range min_ms..max_ms.
FollowedBySleep(tr, i, min_ms, max_ms) ==
    /\ i < Len(tr)
    /\ IsSleep(tr[i + 1])
    /\ tr[i + 1].min_ms = min_ms
    /\ tr[i + 1].max_ms = max_ms
    /\ tr[i + 1].ms \in min_ms..max_ms

\* Every delivered keyboard event of call c, each of which changes
\* _keys_down, is followed by a sleep before the next event and before the
\* return: the settle sleep, or in press_key the dwell sleep after the
\* key-down.
DelayAfterEachKeyEvent(c) ==
    \A i \in 1..Len(c.tr) :
        (IsKey(c.tr[i]) /\ Delivered(c.tr[i])) =>
            IF c.op = "press_key" /\ IsKeyDown(c.tr[i])
            THEN FollowedBySleep(c.tr, i, PRESS_DWELL_MIN_MS, PRESS_DWELL_MAX_MS)
            ELSE FollowedBySleep(c.tr, i, AFTER_KEY_MIN_MS, AFTER_KEY_MAX_MS)

\* C13: every key-down or key-up event that changes _keys_down, whether
\* hold_key, release_key, press_key or reset_keys sends it, is followed by a
\* randomized sleep before any further event and before the call returns; in
\* press_key the sleep after the key-down is the dwell (50 to 100 ms) and
\* the one after the key-up the settle (200 to 300 ms).
C13_DelayAfterKeyEvent == call.op \in KeyboardOps => DelayAfterEachKeyEvent(call)

\* C13, the part reset_keys does not break: the same for hold_key,
\* release_key and press_key alone.
C13_DelayAfterKeyEvent_PublicKeyOps == call.op \in KeyOps => DelayAfterEachKeyEvent(call)

\* C13: reset_keys released two keys and returned without a single sleep.
C13_Witness ==
    /\ call.op = "reset_keys"
    /\ Cardinality(call.pre) >= 2
    /\ AllDelivered(call.tr)
    /\ call.err = NoError
    /\ \A i \in 1..Len(call.tr) : ~IsSleep(call.tr[i])

\* C14: hold_key(k), release_key(k) and press_key(k) touch key k alone:
\* every other key identifier j is held after the call iff it was held
\* before, and no event is sent for j; every event of the call is sent for
\* k and carries the scancode of k.  So a key held with hold_key('q') stays
\* held, with no key-up sent for it, through every press_key of another key.
C14_OnlyTheKeyOfTheCall ==
    call.op \in KeyOps =>
        /\ \A j \in (Keys \cup call.pre \cup keys_down) \ {call.key} :
              /\ j \in keys_down <=> j \in call.pre
              /\ \A i \in 1..Len(call.tr) : IsSend(call.tr[i]) => call.tr[i].key # j
        /\ \A i \in 1..Len(call.tr) : IsSend(call.tr[i]) =>
              /\ IsKey(call.tr[i])
              /\ call.tr[i].key = call.key
              /\ call.tr[i].input.ki.wScan = US_QWERTY_SCANCODES[lower(call.key)]

\* C14: with 'q' held, press_key of another key sent its two events and
\* returned, and 'q' is still held.
C14_Witness ==
    /\ call.op = "press_key"
    /\ call.key # "q"
    /\ "q" \in call.pre
    /\ DownThenUp(call.tr, call.key)
    /\ AllDelivered(call.tr)
    /\ "q" \in keys_down

\* The delivered keyboard events of tr alternate per scancode, from the
\* scancodes down before them: no key-down for a scancode that is down, no
\* key-up for one that is not.
RECURSIVE Alternates(_, _)
Alternates(down, tr) ==
    IF tr = <<>> THEN TRUE
    ELSE LET e == Head(tr)
         IN  IF Delivered(e) /\ IsKeyDown(e)
             THEN /\ e.input.ki.wScan \notin down
                  /\ Alternates(down \cup {e.input.ki.wScan}, Tail(tr))
             ELSE IF Delivered(e) /\ IsKeyUp(e)
             THEN /\ e.input.ki.wScan \in down
                  /\ Alternates(down \ {e.input.ki.wScan}, Tail(tr))
             ELSE Alternates(down, Tail(tr))

\* C15: for every scancode, the keyboard events sent for it over any
\* sequence of calls alternate key-down, key-up, starting with key-down:
\* every call sends a key-down only for a scancode that is not down and a
\* key-up only for one that is, also when two identifiers that lower-case
\* to one table entry ('a' and 'A') name the key.
C15_ScancodesAlternate == [][Alternates(scan_down, call'.tr)]_vars

\* C15: with 'a' held, hold_key('A') delivered a second key-down for the
\* scancode of 'a'.
C15_Witness ==
    /\ call.op = "hold_key"
    /\ call.key = "A"
    /\ "a" \in call.pre
    /\ Len(call.tr) >= 1
    /\ Delivered(call.tr[1])
    /\ IsKeyDown(call.tr[1])
    /\ call.tr[1].input.ki.wScan = US_QWERTY_SCANCODES["a"]
    /\ keys_down = call.pre \cup {"A"}

====
